---- MODULE Spec2Model ----
(***************************************************************************)
(* MCP3208_demo.py: an 8 channel, 12 bit SPI A/D converter sampled from a  *)
(* Raspberry Pi.  readAdc(channel) builds a 3 byte command, exchanges it   *)
(* over spi.xfer2 and decodes the 12 bit value; the main program opens     *)
(* the bus and sweeps channels 0..7 until Ctrl-C.                          *)
(*                                                                         *)
(* Three specifications share the variables:                               *)
(*   Spec     the program entry (open, sweep loop, interrupt, failure);    *)
(*   SpecRead one readAdc call against a call-recording transport, the     *)
(*            response bytes 1 and 2 each ranging over all of 0..255;      *)
(*   SpecSeq  sequences of readAdc calls against one transport.            *)
(* The printed line s (str(i)+":"+str(val).zfill(4)) is not modelled: no   *)
(* property below reads it.                                                *)
(***************************************************************************)
EXTENDS Integers, Sequences, FiniteSets, TLC

VARIABLES pc, busOpen, i, val, sweeps, xferLog, calls

vars == <<pc, busOpen, i, val, sweeps, xferLog, calls>>

(***************************************************************************)
(* Bounds of the model.                                                    *)
(***************************************************************************)
\* sweeps of the while True loop that the model follows
MaxSweeps == 2
\* readAdc calls in one sequence of SpecSeq
MaxReads == 3
\* how far outside 0..7 the channels of the harness reach
MaxOutside == 1

(***************************************************************************)
(* Python's integer operators on non-negative integers (unbounded width).  *)
(***************************************************************************)
RECURSIVE BitAnd(_, _)
BitAnd(a, b) ==
    IF a = 0 \/ b = 0 THEN 0
    ELSE (IF a % 2 = 1 /\ b % 2 = 1 THEN 1 ELSE 0) + 2 * BitAnd(a \div 2, b \div 2)

RECURSIVE BitOr(_, _)
BitOr(a, b) ==
    IF a = 0 THEN b
    ELSE IF b = 0 THEN a
    ELSE (IF a % 2 = 1 \/ b % 2 = 1 THEN 1 ELSE 0) + 2 * BitOr(a \div 2, b \div 2)

ShiftLeft(a, n) == a * 2^n

ShiftRight(a, n) == a \div 2^n

(***************************************************************************)
(* Configuration bits.                                                     *)
(***************************************************************************)
START_BIT == 16

CONFIG_SINGLE_ENDED_AN0_P_GND_N == 8

\* the value readAdc returns for a channel it rejects
InvalidChannel == -1

\* range(0,8): the channels of one sweep are 0 .. RangeEnd-1
\* a sweep that runs one channel too far
RangeEndOneMore == 8 + 1

RangeEnd == 8

Byte == 0..255

(***************************************************************************)
(* readAdc                                                                 *)
(***************************************************************************)
\* a rejected channel is accepted up to 8
ChannelRejectedOffByOne(channel) == (channel > 8) \/ (channel < 0)

\* the sanity check: (channel > 7) or (channel < 0)
ChannelRejected(channel) == (channel > 7) \/ (channel < 0)

config(channel) == BitOr(BitOr(START_BIT, CONFIG_SINGLE_ENDED_AN0_P_GND_N), channel)

\* the command shifted one bit short
sendBytesShifted(channel) ==
    << BitAnd(ShiftRight(config(channel), 3), 7),
       BitAnd(ShiftLeft(config(channel), 5), 192),
       0 >>

\* a command that depends on what the transport carried before
sendBytesStateful(channel) ==
    << BitAnd(ShiftRight(BitOr(config(channel), Len(xferLog) % 8), 2), 7),
       BitAnd(ShiftLeft(BitOr(config(channel), Len(xferLog) % 8), 6), 192),
       0 >>

sendBytes(channel) ==
    << BitAnd(ShiftRight(config(channel), 2), 7),
       BitAnd(ShiftLeft(config(channel), 6), 192),
       0 >>

\* five bits of byte 1 kept instead of four
valueWideMask(rcvBytes) == BitOr(ShiftLeft(BitAnd(rcvBytes[2], 31), 8), rcvBytes[3])

\* byte 0 taken for the high bits
valueWrongByte(rcvBytes) == BitOr(ShiftLeft(BitAnd(rcvBytes[1], 15), 8), rcvBytes[3])

\* a sample one too small
valueOffByOne(rcvBytes) == BitOr(ShiftLeft(BitAnd(rcvBytes[2], 15), 8), rcvBytes[3]) - 1

\* ((rcvBytes[1] & 0x0f) << 8) | rcvBytes[2], the indices 0-based in the source
value(rcvBytes) == BitOr(ShiftLeft(BitAnd(rcvBytes[2], 15), 8), rcvBytes[3])

(***************************************************************************)
(* What spi.xfer2 does with one call: it returns three bytes or raises.    *)
(***************************************************************************)
TransportErrors == {"IOError", "OSError"}

Returns(bytes) == [bytes |-> bytes, err |-> <<>>]

Raises(e) == [bytes |-> <<>>, err |-> <<e>>]

\* readAdc that exchanges again when the exchange raised
readAdcRetry(channel, xfer2) ==
    IF ChannelRejected(channel)
    THEN [returned |-> <<InvalidChannel>>, raised |-> <<>>, xfers |-> <<>>]
    ELSE IF xfer2.err # <<>>
         THEN [returned |-> <<>>, raised |-> xfer2.err,
               xfers |-> <<sendBytes(channel), sendBytes(channel)>>]
         ELSE [returned |-> <<value(xfer2.bytes)>>, raised |-> <<>>,
               xfers |-> <<sendBytes(channel)>>]

\* readAdc that catches the failure of the exchange and returns the sentinel
readAdcSwallow(channel, xfer2) ==
    IF ChannelRejected(channel)
    THEN [returned |-> <<InvalidChannel>>, raised |-> <<>>, xfers |-> <<>>]
    ELSE IF xfer2.err # <<>>
         THEN [returned |-> <<InvalidChannel>>, raised |-> <<>>,
               xfers |-> <<sendBytes(channel)>>]
         ELSE [returned |-> <<value(xfer2.bytes)>>, raised |-> <<>>,
               xfers |-> <<sendBytes(channel)>>]

\* One call of readAdc, xfer2 being what the transport does when called:
\* returned is <<v>> when the call returns v, raised is <<e>> when it raises
\* e, xfers are the frames handed to spi.xfer2, in order.
readAdc(channel, xfer2) ==
    IF ChannelRejected(channel)
    THEN [returned |-> <<InvalidChannel>>, raised |-> <<>>, xfers |-> <<>>]
    ELSE IF xfer2.err # <<>>
         THEN [returned |-> <<>>, raised |-> xfer2.err,
               xfers |-> <<sendBytes(channel)>>]
         ELSE [returned |-> <<value(xfer2.bytes)>>, raised |-> <<>>,
               xfers |-> <<sendBytes(channel)>>]

\* the record of one readAdc call and of the exchanges it made
CallEntry(channel, xfer2) ==
    [channel  |-> channel,
     xfer2    |-> xfer2,
     returned |-> readAdc(channel, xfer2).returned,
     raised   |-> readAdc(channel, xfer2).raised,
     xfers    |-> readAdc(channel, xfer2).xfers]

\* what the transport records of the exchanges of one call
Exchanges(channel, xfer2) ==
    [k \in 1..Len(readAdc(channel, xfer2).xfers) |->
        [channel |-> channel, sendBytes |-> readAdc(channel, xfer2).xfers[k],
         open |-> busOpen]]

(***************************************************************************)
(* Inputs.                                                                 *)
(***************************************************************************)
SampleResponses == { <<0, 0, 0>>, <<0, 10, 255>>, <<0, 15, 255>>, <<255, 240, 1>> }

SeqXfers == {Returns(<<0, 10, 255>>), Returns(<<255, 240, 1>>), Raises("IOError")}

SampleXfers == {Returns(r) : r \in SampleResponses} \cup {Raises(e) : e \in TransportErrors}

SampleBytes == {0, 1, 10, 15, 16, 240, 255}

\* every value of byte 1 with sampled bytes 0 and 2, and every value of byte 2
\* with sampled bytes 0 and 1
AllResponses ==
    { <<b0, b1, b2>> : b0 \in {0, 255}, b1 \in Byte, b2 \in SampleBytes } \cup
    { <<b0, b1, b2>> : b0 \in {0, 255}, b1 \in SampleBytes, b2 \in Byte }

AllXfers == {Returns(r) : r \in AllResponses} \cup {Raises(e) : e \in TransportErrors}

TestChannels == (0 - MaxOutside) .. (7 + MaxOutside)

\* the channels read in sequences: the ends and the middle of 0..7, and one
\* rejected channel on each side
SeqChannels == {0 - MaxOutside, 0, 5, 7, 7 + MaxOutside}

(***************************************************************************)
(* The program entry.                                                      *)
(***************************************************************************)
\* i and val are unbound until the loop assigns them; 0 stands for that
Init ==
    /\ pc = "banner"
    /\ busOpen = FALSE
    /\ i = 0
    /\ val = 0
    /\ sweeps = 0
    /\ xferLog = <<>>
    /\ calls = <<>>

\* the prints and time.sleep(3), before the try
Banner ==
    /\ pc = "banner"
    /\ pc' = "open"
    /\ UNCHANGED <<busOpen, i, val, sweeps, xferLog, calls>>

\* Ctrl-C before the try block is entered: nothing catches it
InterruptBeforeTry ==
    /\ pc = "banner"
    /\ pc' = "crashed"
    /\ UNCHANGED <<busOpen, i, val, sweeps, xferLog, calls>>

\* spi.open(0,0)
Open ==
    /\ pc = "open"
    /\ busOpen' = TRUE
    /\ pc' = "while"
    /\ UNCHANGED <<i, val, sweeps, xferLog, calls>>

\* spi.open(0,0) raises: not a KeyboardInterrupt, nothing catches it
OpenFail ==
    /\ pc = "open"
    /\ pc' = "crashed"
    /\ UNCHANGED <<busOpen, i, val, sweeps, xferLog, calls>>

\* while True: s = ...; for i in range(0,8)
WhileTop ==
    /\ pc = "while"
    /\ sweeps < MaxSweeps
    /\ sweeps' = sweeps + 1
    /\ i' = 0
    /\ pc' = "for"
    /\ UNCHANGED <<busOpen, val, xferLog, calls>>

\* val = readAdc(i), the exchange answered or failing
ForRead ==
    /\ pc = "for"
    /\ \E xfer2 \in SampleXfers :
          /\ xferLog' = xferLog \o Exchanges(i, xfer2)
          /\ IF readAdc(i, xfer2).raised # <<>>
             THEN /\ pc' = "crashed"
                  /\ UNCHANGED <<i, val>>
             ELSE /\ val' = readAdc(i, xfer2).returned[1]
                  /\ IF i + 1 < RangeEnd
                     THEN i' = i + 1 /\ pc' = "for"
                     ELSE i' = i /\ pc' = "print"
    /\ UNCHANGED <<busOpen, sweeps, calls>>

\* print s; time.sleep(0.05)
PrintSleep ==
    /\ pc = "print"
    /\ pc' = "while"
    /\ UNCHANGED <<busOpen, i, val, sweeps, xferLog, calls>>

\* except KeyboardInterrupt: spi.close(); sys.exit(0), Ctrl-C arriving
\* between two statements of the try block
Interrupt ==
    /\ pc \in {"open", "while", "for", "print"}
    /\ busOpen' = FALSE
    /\ pc' = "exit"
    /\ UNCHANGED <<i, val, sweeps, xferLog, calls>>

\* Ctrl-C arriving inside readAdc(i) once the exchange is done
InterruptInRead ==
    /\ pc = "for"
    /\ \E xfer2 \in {x \in SampleXfers : x.err = <<>>} :
          xferLog' = xferLog \o Exchanges(i, xfer2)
    /\ busOpen' = FALSE
    /\ pc' = "exit"
    /\ UNCHANGED <<i, val, sweeps, calls>>

Next ==
    \/ Banner
    \/ InterruptBeforeTry
    \/ Open
    \/ OpenFail
    \/ WhileTop
    \/ ForRead
    \/ PrintSleep
    \/ Interrupt
    \/ InterruptInRead

Spec == Init /\ [][Next]_vars

(***************************************************************************)
(* One readAdc call against a transport that records its calls.            *)
(***************************************************************************)
InitRead ==
    /\ pc = "harness"
    /\ busOpen = TRUE
    /\ i \in TestChannels
    /\ val = 0
    /\ sweeps = 0
    /\ xferLog = <<>>
    /\ calls = <<>>

\* a fresh transport, then one readAdc(i)
UnitRead ==
    /\ pc = "harness"
    /\ calls = <<>>
    /\ \E xfer2 \in AllXfers :
          /\ calls' = << CallEntry(i, xfer2) >>
          /\ xferLog' = Exchanges(i, xfer2)
    /\ UNCHANGED <<pc, busOpen, i, val, sweeps>>

NextRead == UnitRead

SpecRead == InitRead /\ [][NextRead]_vars

(***************************************************************************)
(* Sequences of readAdc calls against one transport.                       *)
(***************************************************************************)
InitSeq ==
    /\ pc = "harness"
    /\ busOpen = TRUE
    /\ i = 0
    /\ val = 0
    /\ sweeps = 0
    /\ xferLog = <<>>
    /\ calls = <<>>

\* the next readAdc(channel) on the same transport
SeqRead ==
    /\ pc = "harness"
    /\ Len(calls) < MaxReads
    /\ \E channel \in SeqChannels, xfer2 \in SeqXfers :
          /\ calls' = Append(calls, CallEntry(channel, xfer2))
          /\ xferLog' = xferLog \o Exchanges(channel, xfer2)
    /\ UNCHANGED <<pc, busOpen, i, val, sweeps>>

NextSeq == SeqRead

SpecSeq == InitSeq /\ [][NextSeq]_vars

(***************************************************************************)
(* Properties.                                                             *)
(***************************************************************************)
ValidChannels == 0..7

\* C1: a read of a channel outside 0..7 returns the InvalidChannel sentinel
\* and hands nothing to the transport.
C1_InvalidChannelNoExchange ==
    \A k \in DOMAIN calls :
        calls[k].channel \notin ValidChannels =>
            /\ calls[k].returned = << -1 >>
            /\ calls[k].raised = <<>>
            /\ calls[k].xfers = <<>>
            /\ xferLog = <<>>

C1_Witness ==
    /\ calls # <<>>
    /\ calls[1].channel = 8
    /\ calls[1].returned = << -1 >>
    /\ xferLog = <<>>

\* C2: for a channel c in 0..7 the frame handed to the transport is the three
\* bytes ((0x18|c)>>2)&0x07, ((0x18|c)<<6)&0xC0, 0; c = 0 gives 6,0,0 and
\* c = 7 gives 7,192,0.
C2_CommandFrame ==
    \A k \in DOMAIN calls :
        calls[k].channel \in ValidChannels =>
            /\ xferLog # <<>>
            /\ Len(xferLog[1].sendBytes) = 3
            /\ xferLog[1].sendBytes =
                  << BitAnd(ShiftRight(BitOr(24, calls[k].channel), 2), 7),
                     BitAnd(ShiftLeft(BitOr(24, calls[k].channel), 6), 192),
                     0 >>
            /\ (calls[k].channel = 0 => xferLog[1].sendBytes = <<6, 0, 0>>)
            /\ (calls[k].channel = 7 => xferLog[1].sendBytes = <<7, 192, 0>>)

C2_Witness ==
    /\ calls # <<>>
    /\ calls[1].channel = 7
    /\ xferLog # <<>>
    /\ xferLog[1].sendBytes = <<7, 192, 0>>

\* C3: for a valid channel and a response r the read returns
\* ((r[1] & 0x0F) << 8) | r[2]; 0,10,255 gives 2815, 0,0,0 gives 0 and
\* 0,15,255 gives 4095.
C3_Decode ==
    \A k \in DOMAIN calls :
        (calls[k].channel \in ValidChannels /\ calls[k].xfer2.err = <<>>) =>
            /\ calls[k].raised = <<>>
            /\ calls[k].returned =
                  << BitOr(ShiftLeft(BitAnd(calls[k].xfer2.bytes[2], 15), 8),
                           calls[k].xfer2.bytes[3]) >>
            /\ (calls[k].xfer2.bytes = <<0, 10, 255>> => calls[k].returned = <<2815>>)
            /\ (calls[k].xfer2.bytes = <<0, 0, 0>> => calls[k].returned = <<0>>)
            /\ (calls[k].xfer2.bytes = <<0, 15, 255>> => calls[k].returned = <<4095>>)

C3_Witness ==
    /\ calls # <<>>
    /\ calls[1].channel \in ValidChannels
    /\ calls[1].xfer2 = Returns(<<0, 10, 255>>)
    /\ calls[1].returned = <<2815>>

\* C4: the value of a successful read lies in 0..4095 whatever the response
\* bytes are.
C4_TwelveBits ==
    \A k \in DOMAIN calls :
        (calls[k].channel \in ValidChannels /\ calls[k].xfer2.err = <<>>) =>
            /\ Len(calls[k].returned) = 1
            /\ calls[k].returned[1] \in 0..4095

C4_Witness ==
    /\ calls # <<>>
    /\ calls[1].channel \in ValidChannels
    /\ calls[1].xfer2 = Returns(<<255, 255, 255>>)
    /\ calls[1].returned = <<4095>>

\* C5: a read of a channel in 0..7 makes exactly one exchange, of a 3 byte
\* frame.
C5_OneExchange ==
    \A k \in DOMAIN calls :
        calls[k].channel \in ValidChannels =>
            /\ Len(calls[k].xfers) = 1
            /\ Len(xferLog) = 1
            /\ Len(xferLog[1].sendBytes) = 3

C5_Witness ==
    /\ calls # <<>>
    /\ calls[1].channel = 3
    /\ calls[1].xfer2.err = <<>>
    /\ Len(xferLog) = 1

\* C6: when the exchange raises, the read raises the same error, returns no
\* value and does not exchange again.
C6_FailurePropagates ==
    \A k \in DOMAIN calls :
        (calls[k].channel \in ValidChannels /\ calls[k].xfer2.err # <<>>) =>
            /\ calls[k].raised = calls[k].xfer2.err
            /\ calls[k].returned = <<>>
            /\ Len(xferLog) = 1

C6_Witness ==
    /\ calls # <<>>
    /\ calls[1].channel \in ValidChannels
    /\ calls[1].xfer2 = Raises("OSError")
    /\ calls[1].raised = <<"OSError">>

\* C7: whatever was read before, two reads of the same channel hand the same
\* frames to the transport, and two reads with the same channel and the same
\* transport answer have the same outcome.
C7_Stateless ==
    \A j \in DOMAIN calls : \A k \in DOMAIN calls :
        calls[j].channel = calls[k].channel =>
            /\ calls[j].xfers = calls[k].xfers
            /\ (calls[j].xfer2 = calls[k].xfer2 =>
                   /\ calls[j].returned = calls[k].returned
                   /\ calls[j].raised = calls[k].raised)

C7_Witness ==
    /\ Len(calls) >= 3
    /\ calls[1].channel = 5
    /\ calls[2].channel = 7
    /\ calls[2].raised = <<"IOError">>
    /\ calls[3].channel = 5
    /\ calls[1].xfer2 = calls[3].xfer2
    /\ calls[3].returned = <<2815>>
    /\ Len(xferLog) = 3

C9_SentinelOnlyForInvalid ==
    \A k \in DOMAIN calls :
        (calls[k].returned = << -1 >>) <=> (calls[k].channel \notin ValidChannels)

C9_Witness ==
    /\ calls # <<>>
    /\ calls[1].channel = -1
    /\ calls[1].returned = << -1 >>

\* C10: every exchange of the program is made while the bus is open, the k-th
\* exchange reads channel (k-1) mod 8, every read of the loop so far has made
\* one exchange, and no read returned the invalid-channel sentinel.
C10_Sweeps ==
    /\ \A k \in DOMAIN xferLog :
          /\ xferLog[k].open
          /\ xferLog[k].channel = (k - 1) % 8
    /\ val # -1
    /\ (pc = "for" => i \in 0..7 /\ Len(xferLog) = 8 * (sweeps - 1) + i)
    /\ (pc = "print" => Len(xferLog) = 8 * sweeps)

C10_Witness ==
    /\ pc = "print"
    /\ sweeps = 2
    /\ Len(xferLog) = 16
    /\ xferLog[16].channel = 7

====
